---- MODULE Spec2Model ----
(***************************************************************************)
(* Model of the local-rag Obsidian plugin (src/src/main.ts): the exclusion *)
(* filter, the toIndex queue, the interval tick, the vault event handlers  *)
(* and the "index all documents" command.                                  *)
(*                                                                         *)
(* Strings are sequences of symbols, so that String.startsWith and the     *)
(* '#' normalisation of tags are computed and not assumed.  A JavaScript   *)
(* Set<string> is an insertion-ordered sequence without duplicates, and    *)
(* the Set OBJECTS live in a heap because the code aliases them            *)
(* (batchIndexDocuments returns its argument on a transport error).        *)
(***************************************************************************)
EXTENDS Integers, Sequences, FiniteSets, TLC

\* ------------------------------------------------------------------ bounds
NumPaths == 2        \* documents of the vault universe of Spec
MaxInFlight == 2     \* interval ticks whose callback has not finished yet
MaxRenames == 1      \* rename events of one run
BulkDocs == 11       \* documents directly under Notes/ in the vault of SpecBulk

\* ------------------------------------------------------- program constants
BatchSize == 10      \* const batchSize = 10
MaxAttempts == 5     \* while (... && attempts < 5)

\* ------------------------------------------------------------ sequences
Range(s) == {s[i] : i \in 1..Len(s)}

Count(x, s) == Cardinality({i \in 1..Len(s) : s[i] = x})

\* String.prototype.startsWith
startsWith(s, p) == Len(p) <= Len(s) /\ SubSeq(s, 1, Len(p)) = p

\* Array.prototype.filter, keeping the order
RECURSIVE SeqFilter(_, _)
SeqFilter(s, keep) ==
  IF s = <<>> THEN <<>>
  ELSE IF Head(s) \in keep
       THEN <<Head(s)>> \o SeqFilter(Tail(s), keep)
       ELSE SeqFilter(Tail(s), keep)

\* Set.prototype.add on an insertion-ordered set
SetAddDup(s, x) == Append(s, x)
SetAdd(s, x) == IF x \in Range(s) THEN s ELSE Append(s, x)

\* new Set(array): the elements in first-occurrence order
RECURSIVE NewSet(_)
NewSet(arr) ==
  IF arr = <<>> THEN <<>>
  ELSE SetAdd(NewSet(SubSeq(arr, 1, Len(arr) - 1)), arr[Len(arr)])

\* Array.from(set)
ArrayFrom(set) == set

\* an ordered enumeration of a finite set of paths (a backend's failure list)
RECURSIVE SeqOf(_)
SeqOf(S) ==
  IF S = {} THEN <<>>
  ELSE LET x == CHOOSE y \in S : TRUE IN <<x>> \o SeqOf(S \ {x})

\* ------------------------------------------------------------- universe
\* Document identifiers are vault paths: sequences of symbols.
Names == <<"a", "b", "c", "d", "e", "f", "g", "h", "i", "j", "k", "l", "m", "n">>

NotesPath(i) == <<"Notes", "/", Names[i]>>
ArchivePath(i) == <<"Archive", "/", Names[i]>>

\* odd documents live under Notes/, even ones under Archive/
PathOf(i) == IF i % 2 = 1 THEN NotesPath(i) ELSE ArchivePath(i)

SpecPaths == {PathOf(i) : i \in 1..NumPaths}

ArchivePrefix == <<"Archive", "/">>
PrivateTag == <<"#", "private">>

\* A CachedMetadata of the metadata cache (getFileCache): `cache` is FALSE for
\* null; `fm` tells whether cache.frontmatter is absent, present without a
\* tags field, or present with the array fmTags; `inline` tells whether
\* cache.tags is defined (inlineTags are the .tag strings of its entries).
NoCache ==
  [cache |-> FALSE, fm |-> "absent", fmTags |-> <<>>, inline |-> FALSE, inlineTags |-> <<>>]
Untagged ==
  [cache |-> TRUE, fm |-> "absent", fmTags |-> <<>>, inline |-> FALSE, inlineTags |-> <<>>]
FmPrivate ==
  [cache |-> TRUE, fm |-> "tags", fmTags |-> << <<"private">> >>, inline |-> FALSE,
   inlineTags |-> <<>>]
FmNoTags ==
  [cache |-> TRUE, fm |-> "notags", fmTags |-> <<>>, inline |-> FALSE, inlineTags |-> <<>>]

\* the metadata shapes the documents of Spec take
SpecMetas == {Untagged, FmPrivate, FmNoTags}

NoFile == [exists |-> FALSE, meta |-> NoCache]
FileOf(m) == [exists |-> TRUE, meta |-> m]

VARIABLES
  vault,      \* app.vault and app.metadataCache: path -> [exists, meta]
  settings,   \* this.settings: [excludePaths, excludeTags]
  phase,      \* "constructed", "loaded", "failed" (the filter loop of loadSettings
              \* threw), "noconfig" (LocalRagConfig.load threw), "unloaded"
  heap,       \* the Set<string> objects: object id -> insertion-ordered set
  toIndex,    \* this.toIndex: the id of the current Set object
  data,       \* this.data.toIndex: the array savePluginData last produced
  disk,       \* the persisted plugin data (data.json)
  ticks,      \* the interval callbacks that have not finished, oldest first
  handled,    \* the callback the step just taken completed, with its response
  window,     \* what modify events added since the newest callback started
  indexOps,   \* indexDocument calls awaiting their vault.read
  net,        \* the single-document requests issued, in order
  excl,       \* the outcomes of the isExcluded calls of Evaluate and EvaluateAgain
  bulk        \* the running "index all documents" command callback

vars ==
  <<vault, settings, phase, heap, toIndex, data, disk, ticks, handled, window, indexOps, net,
    excl, bulk>>

Paths == DOMAIN vault

\* ------------------------------------------------------ exclusion filter
\* t.startsWith('#') ? t : `#${t}`
normalizeTag(t) == IF startsWith(t, <<"#">>) THEN t ELSE <<"#">> \o t

\* for (const path of this.settings.excludePaths || []) ...
pathExcludedFirstCallOnly(file) ==
  ~excl.done /\ \E i \in 1..Len(settings.excludePaths) : startsWith(file, settings.excludePaths[i])
pathExcluded(file) ==
  \E i \in 1..Len(settings.excludePaths) : startsWith(file, settings.excludePaths[i])

\* cache?.frontmatter?.tags.map(...) dereferences .tags of a frontmatter that
\* has no tags field: a TypeError, but only when the path loop did not return.
isExcludedThrows(file) ==
  /\ ~pathExcluded(file)
  /\ vault[file].meta.cache
  /\ vault[file].meta.fm = "notags"

frontmatterTags(file) ==
  LET c == vault[file].meta
  IN  IF c.cache /\ c.fm = "tags"
      THEN [i \in 1..Len(c.fmTags) |-> normalizeTag(c.fmTags[i])]
      ELSE <<>>

inlineTags(file) ==
  LET c == vault[file].meta
  IN  IF c.cache /\ c.inline
      THEN [i \in 1..Len(c.inlineTags) |-> normalizeTag(c.inlineTags[i])]
      ELSE <<>>

allTags(file) == frontmatterTags(file) \o inlineTags(file)

\* the value isExcluded returns when it does not throw
isExcluded(file) ==
  \/ pathExcluded(file)
  \/ \E i \in 1..Len(settings.excludeTags) :
       settings.excludeTags[i] \in Range(allTags(file))

\* --------------------------------------------------- Set objects (heap)
ObjIds == 1..(MaxInFlight + 1)

\* the pending set: the contents of the Set object this.toIndex refers to
Pending == heap[toIndex]
PendingSet == Range(heap[toIndex])

Held(tk) == {tk[i].filePaths : i \in 1..Len(tk)}

\* objects nothing refers to any more are collected
Collect(h, t, tk) == [o \in ObjIds |-> IF o \in {t} \cup Held(tk) THEN h[o] ELSE <<>>]

\* `new Set(...)`: an object no running callback refers to
NewObj(tk) == CHOOSE o \in ObjIds \ Held(tk) : \A q \in ObjIds \ Held(tk) : o <= q

RemoveAt(s, k) == SubSeq(s, 1, k - 1) \o SubSeq(s, k + 1, Len(s))

\* ------------------------------------------------------------ persistence
NoData == [present |-> FALSE, isArray |-> FALSE, toIndex |-> <<>>]
NotArray == [present |-> TRUE, isArray |-> FALSE, toIndex |-> <<>>]
Stored(arr) == [present |-> TRUE, isArray |-> TRUE, toIndex |-> arr]

\* normalizeData(data).toIndex
normalizeData(d) == IF d.present /\ d.isArray THEN d.toIndex ELSE <<>>

\* savePluginData: this.data.toIndex = Array.from(this.toIndex); saveData(this.data)
savePluginData(set) == Stored(ArrayFrom(set))

\* ------------------------------------------------- batchIndexDocuments
\* the forEach of batchIndexDocuments throws when isExcluded throws on a file
\* that resolves
resolveThrows(filePaths) ==
  \E k \in 1..Len(filePaths) : vault[filePaths[k]].exists /\ isExcludedThrows(filePaths[k])

\* files: the identifiers that resolve to a TFile and are not excluded
resolveFilesUnfiltered(filePaths) ==
  SeqFilter(filePaths, {f \in Paths : vault[f].exists})
resolveFiles(filePaths) ==
  SeqFilter(filePaths, {f \in Paths : vault[f].exists /\ ~isExcluded(f)})

\* vault.read of every file succeeds when every file still exists
readsSucceed(files) == \A k \in 1..Len(files) : vault[files[k]].exists

\* documents.push({document_name: file.path, ...}) for each file
buildDocuments(files) == files

\* the responses the batch endpoint can give: a transport error, or a body
\* whose failed_documents is any list of identifiers
Responses ==
  {[ok |-> FALSE, failed |-> <<>>]} \cup {[ok |-> TRUE, failed |-> SeqOf(S)] : S \in SUBSET Paths}

\* try { ... return new Set(resp.json.failed_documents) }
remainingSetEmpty(resp) == NewSet(<<>>)
remainingSet(resp) == NewSet(resp.failed)

\* catch (error) { ... return filePaths }: the argument object itself
returnsArgumentNever(resp) == FALSE
returnsArgument(resp) == ~resp.ok

\* ----------------------------------------------------------- interval tick
\* A running callback: `pc` is "reading" while batchIndexDocuments awaits its
\* vault.read calls and "requesting" while it awaits requestUrl; filePaths is
\* the Set object it was called with; `work` records that Set's contents when
\* the callback started.
StartedTick(obj, files) ==
  [pc |-> IF files = <<>> THEN "requesting" ELSE "reading", filePaths |-> obj,
   files |-> files, documents |-> buildDocuments(<<>>), work |-> Range(heap[obj])]

\* `open` while the newest callback runs; `added` the identifiers the modify
\* handlers added since it started
NoWindow == [open |-> FALSE, added |-> {}]

\* what a completed callback leaves for the properties to read: its response,
\* what it sent, what it started with, when it was the newest callback what
\* was added while it ran, and whether its saveData call succeeded
NoResp ==
  [got |-> FALSE, ok |-> FALSE, failed |-> <<>>, documents |-> <<>>, work |-> {},
   newest |-> FALSE, added |-> {}, saved |-> TRUE]

Completed(i, r) ==
  [got |-> TRUE, ok |-> r.ok, failed |-> r.failed, documents |-> ticks[i].documents,
   work |-> ticks[i].work, newest |-> (i = Len(ticks) /\ window.open),
   added |-> IF i = Len(ticks) /\ window.open THEN window.added ELSE {}, saved |-> TRUE]

\* if (this.toIndex.size > 0) { ... }: the callback does nothing otherwise
tickSkipsNever(set) == FALSE
tickSkips(set) == Len(set) = 0

\* window.setInterval(async () => {...}, 5 * 1000): the timer fires whether or
\* not an earlier callback is still awaiting.  With size 0 there is nothing to
\* do, and a throwing forEach rejects the callback before anything is sent.
Tick ==
  /\ phase = "loaded"
  /\ Len(ticks) < MaxInFlight
  /\ IF tickSkips(Pending) \/ resolveThrows(Pending)
     THEN UNCHANGED <<ticks, window>>
     ELSE /\ ticks' = Append(ticks, StartedTick(toIndex, resolveFiles(Pending)))
          /\ window' = [open |-> TRUE, added |-> {}]
  /\ handled' = NoResp
  /\ UNCHANGED <<vault, settings, phase, heap, toIndex, data, disk, indexOps, net, excl, bulk>>

\* the window of the newest callback closes when that callback ends
CloseWindow(i) == IF i = Len(ticks) THEN NoWindow ELSE window

\* the awaited vault.read calls of batchIndexDocuments have settled
TickReads(i) ==
  /\ i \in 1..Len(ticks)
  /\ ticks[i].pc = "reading"
  /\ IF readsSucceed(ticks[i].files)
     THEN /\ ticks' = [ticks EXCEPT ![i].pc = "requesting", ![i].files = <<>>,
                                    ![i].documents = buildDocuments(ticks[i].files)]
          /\ UNCHANGED <<heap, window>>
     ELSE \* a read rejected: batchIndexDocuments and the callback reject
          /\ ticks' = RemoveAt(ticks, i)
          /\ heap' = Collect(heap, toIndex, ticks')
          /\ window' = CloseWindow(i)
  /\ handled' = NoResp
  /\ UNCHANGED <<vault, settings, phase, toIndex, data, disk, indexOps, net, excl, bulk>>

\* the batch request of callback i settles with r and the callback continues:
\* this.toIndex = <result of batchIndexDocuments>; await this.savePluginData()
TickResume(i) ==
  /\ i \in 1..Len(ticks)
  /\ ticks[i].pc = "requesting"
  /\ \E r \in Responses :
       LET rest == RemoveAt(ticks, i)
           same == returnsArgument(r)
           obj == IF same THEN ticks[i].filePaths ELSE NewObj(rest)
           h == IF same THEN heap ELSE [heap EXCEPT ![obj] = remainingSet(r)]
       IN  /\ ticks' = rest
           /\ handled' = Completed(i, r)
           /\ toIndex' = obj
           /\ heap' = Collect(h, obj, rest)
           /\ data' = ArrayFrom(h[obj])
           /\ disk' = savePluginData(h[obj])
  /\ window' = CloseWindow(i)
  /\ UNCHANGED <<vault, settings, phase, indexOps, net, excl, bulk>>

\* What a rejected saveData leaves in the Set this.toIndex refers to: the
\* assignment of line 39 is complete when savePluginData is called.
toIndexAfterFailedSaveCleared(set) == <<>>
toIndexAfterFailedSave(set) == set

\* the batch request of callback i settles with r, and the saveData call of
\* the savePluginData that follows rejects: this.data.toIndex is assigned,
\* the file is not written, and the callback rejects
TickResumeSaveFails(i) ==
  /\ i \in 1..Len(ticks)
  /\ ticks[i].pc = "requesting"
  /\ \E r \in Responses :
       LET rest == RemoveAt(ticks, i)
           same == returnsArgument(r)
           obj == IF same THEN ticks[i].filePaths ELSE NewObj(rest)
           h == IF same THEN heap ELSE [heap EXCEPT ![obj] = remainingSet(r)]
       IN  /\ ticks' = rest
           /\ handled' = [Completed(i, r) EXCEPT !.saved = FALSE]
           /\ toIndex' = obj
           /\ heap' = Collect([h EXCEPT ![obj] = toIndexAfterFailedSave(@)], obj, rest)
           /\ data' = ArrayFrom(h[obj])
           /\ disk' = disk
  /\ window' = CloseWindow(i)
  /\ UNCHANGED <<vault, settings, phase, indexOps, net, excl, bulk>>

\* ------------------------------------------------------- event handlers
\* does a registered 'modify' handler add the path?
modifyAdds(file) == ~isExcludedThrows(file) /\ ~isExcluded(file)

\* one registered 'modify' handler
modifyHandler(set, file) == IF modifyAdds(file) THEN SetAdd(set, file) ELSE set

\* a vault 'modify' event: both registered handlers run, one after the other
Modify(file) ==
  /\ phase = "loaded"
  /\ vault[file].exists
  /\ heap' = [heap EXCEPT ![toIndex] = modifyHandler(modifyHandler(@, file), file)]
  /\ window' = IF window.open /\ modifyAdds(file)
               THEN [window EXCEPT !.added = @ \cup {file}]
               ELSE window
  /\ handled' = NoResp
  /\ UNCHANGED <<vault, settings, phase, toIndex, data, disk, ticks, indexOps, net, excl, bulk>>

\* a requestUrl call of removeIndexedDocument or indexDocument: `state` is
\* "sent" until its promise settles, then "done" or "failed"
DeleteRequest(name) == [op |-> "delete", name |-> name, state |-> "sent"]
IndexRequest(name) == [op |-> "index", name |-> name, state |-> "sent"]

Renames == Cardinality({k \in 1..Len(net) : net[k].op = "delete"})

\* the 'rename' handler, after the vault moved the file from oldPath to file:
\* removeIndexedDocument(oldPath) issues its request at once; indexDocument
\* re-checks isExcluded and then awaits vault.read before it issues its own.
renameStartsIndex(file) == ~isExcludedThrows(file) /\ ~isExcluded(file)

\* What the 'rename' handler leaves in the Set this.toIndex refers to: the
\* handler does not use this.toIndex.
toIndexAfterRenameMoved(pending, oldPath, file) ==
  IF oldPath \in Range(pending)
  THEN SetAdd(SeqFilter(pending, Range(pending) \ {oldPath}), file)
  ELSE pending
toIndexAfterRename(pending, oldPath, file) == pending

\* A rename changes the path of the TFile in place; the model's file handles
\* are paths, so a rename waits until no indexDocument holds a handle.
Rename(oldPath, file) ==
  /\ phase = "loaded"
  /\ Renames < MaxRenames
  /\ indexOps = <<>>
  /\ vault[oldPath].exists /\ ~vault[file].exists
  /\ vault' = [vault EXCEPT ![file] = vault[oldPath], ![oldPath] = NoFile]
  /\ heap' = [heap EXCEPT ![toIndex] = toIndexAfterRename(@, oldPath, file)]
  /\ UNCHANGED <<settings, phase, toIndex, data, disk, ticks, handled, window, excl, bulk>>
  /\ net' = Append(net, DeleteRequest(oldPath))
  /\ indexOps' = IF renameStartsIndex(file)' THEN Append(indexOps, file) ELSE indexOps

\* the awaited vault.read of indexDocument has settled
IndexRead(k) ==
  /\ k \in 1..Len(indexOps)
  /\ net' = IF vault[indexOps[k]].exists
            THEN Append(net, IndexRequest(indexOps[k]))
            ELSE net   \* the read rejected: no request
  /\ indexOps' = RemoveAt(indexOps, k)
  /\ UNCHANGED <<vault, settings, phase, heap, toIndex, data, disk, ticks, handled, window,
                 excl, bulk>>

\* the promise of single-document request k settles: the .then or the .catch
\* callback shows a notice
RequestSettles(k, ok) ==
  /\ k \in 1..Len(net)
  /\ net[k].state = "sent"
  /\ net' = [net EXCEPT ![k].state = IF ok THEN "done" ELSE "failed"]
  /\ UNCHANGED <<vault, settings, phase, heap, toIndex, data, disk, ticks, handled, window,
                 indexOps, excl, bulk>>

\* --------------------------------------------------------- the vault
Running == phase \in {"loaded", "unloaded"}

DeleteFile(file) ==
  /\ Running
  /\ vault[file].exists
  /\ vault' = [vault EXCEPT ![file] = NoFile]
  /\ handled' = NoResp
  /\ UNCHANGED <<settings, phase, heap, toIndex, data, disk, ticks, window, indexOps, net,
                 excl, bulk>>

CreateFile(file) ==
  /\ Running
  /\ ~vault[file].exists
  /\ \E m \in SpecMetas : vault' = [vault EXCEPT ![file] = FileOf(m)]
  /\ handled' = NoResp
  /\ UNCHANGED <<settings, phase, heap, toIndex, data, disk, ticks, window, indexOps, net,
                 excl, bulk>>

\* the metadata cache re-parses an edited file
MetadataChange(file) ==
  /\ Running
  /\ vault[file].exists
  /\ \E m \in SpecMetas \ {vault[file].meta} : vault' = [vault EXCEPT ![file] = FileOf(m)]
  /\ handled' = NoResp
  /\ UNCHANGED <<settings, phase, heap, toIndex, data, disk, ticks, window, indexOps, net,
                 excl, bulk>>

\* ----------------------------------------------------------- life cycle
\* the filter loop of loadSettings throws when isExcluded throws
loadFilter(set) == SeqFilter(set, {f \in Paths : vault[f].exists /\ ~isExcluded(f)})

\* onload: loadSettings, then the interval and the handlers are registered.
\* LocalRagConfig.load throws when the config file is missing (configOk = FALSE).
Onload ==
  /\ phase = "constructed"
  /\ \E configOk \in BOOLEAN :
       LET arr == normalizeData(disk)
           loaded == NewSet(arr)
           throws == resolveThrows(loaded)
       IN  /\ data' = arr
           /\ heap' = [heap EXCEPT ![toIndex] = IF throws THEN loaded ELSE loadFilter(loaded)]
           /\ phase' = IF throws THEN "failed" ELSE IF ~configOk THEN "noconfig" ELSE "loaded"
  /\ UNCHANGED <<vault, settings, toIndex, disk, ticks, handled, window, indexOps, net, excl, bulk>>

\* onunload: savePluginData; the interval and the handlers are removed
Onunload ==
  /\ phase = "loaded"
  /\ phase' = "unloaded"
  /\ data' = ArrayFrom(Pending)
  /\ disk' = savePluginData(Pending)
  /\ handled' = NoResp
  /\ UNCHANGED <<vault, settings, heap, toIndex, ticks, window, indexOps, net, excl, bulk>>

\* ------------------------------------------- "index all documents" command
\* The vault of SpecBulk: BulkDocs documents in Notes/, one in the nested
\* folder Notes/sub/, one in Archive/ and one in the vault's root folder.
SubPath == <<"Notes", "/", "sub", "/", "x">>
RootPath == <<"r">>

BulkPaths == {NotesPath(i) : i \in 1..BulkDocs} \cup {SubPath, ArchivePath(1), RootPath}

\* the order in which the vault lists its files
BulkListing == [i \in 1..BulkDocs |-> NotesPath(i)] \o <<SubPath, ArchivePath(1), RootPath>>

\* app.vault.getAllFolders(): every folder but the root
getAllFolders == << <<"Notes">>, <<"Notes", "/", "sub">>, <<"Archive">> >>

\* is the entry a direct child of the folder?
childOf(entry, folder) ==
  Len(entry) = Len(folder) + 2 /\ startsWith(entry, folder \o <<"/">>)

\* folder.children: the files first, then the folders
children(folder) ==
  SeqFilter(BulkListing, {f \in Paths : vault[f].exists /\ childOf(f, folder)})
    \o SeqFilter(getAllFolders, {g \in Range(getAllFolders) : childOf(g, folder)})

\* the loop of traverseFolder over folder.children
RECURSIVE traverseChildren(_, _)
traverseChildren(entries, filePaths) ==
  IF entries = <<>> THEN filePaths
  ELSE traverseChildren(Tail(entries),
         IF Head(entries) \in Range(getAllFolders)
         THEN traverseChildren(children(Head(entries)), filePaths)
         ELSE SetAdd(filePaths, Head(entries)))

traverseFolder(folder, filePaths) == traverseChildren(children(folder), filePaths)

\* getAllFolders().filter(folder => !excludePaths?.some(p => folder.path.startsWith(p)))
foldersToTraverse ==
  SeqFilter(getAllFolders,
            {g \in Range(getAllFolders) :
               ~\E i \in 1..Len(settings.excludePaths) : startsWith(g, settings.excludePaths[i])})

\* for (const folder of folders) traverseFolder(folder, this.app, filesSet)
RECURSIVE traverseFolders(_, _)
traverseFolders(folders, filesSet) ==
  IF folders = <<>> THEN filesSet
  ELSE traverseFolders(Tail(folders), traverseFolder(Head(folders), filesSet))

RECURSIVE chunkArray(_, _)
chunkArray(items, chunkSize) ==
  IF items = <<>> THEN <<>>
  ELSE IF Len(items) <= chunkSize THEN <<items>>
       ELSE <<SubSeq(items, 1, chunkSize)>>
              \o chunkArray(SubSeq(items, chunkSize + 1, Len(items)), chunkSize)

\* batchRemaining.forEach((path) => remaining.add(path))
RECURSIVE addAll(_, _)
addAll(set, items) ==
  IF items = <<>> THEN set ELSE addAll(SetAdd(set, Head(items)), Tail(items))

\* while (currentRemaining.size > 0 && attempts < 5)
retryAgainUnbounded(currentRemaining, attempts) == Len(currentRemaining) > 0
retryAgain(currentRemaining, attempts) == Len(currentRemaining) > 0 /\ attempts < MaxAttempts

\* The command callback: `pc` is "idle", "reading" (batchIndexDocuments
\* awaits vault.read), "requesting" (it awaits requestUrl), "done" (the
\* callback returned) or "crashed" (it rejected); `batches` are the batches of
\* the pass still to send, the current one first; `remaining` is the set the
\* pass accumulates (remaining / nextRemaining); `retrying` tells a retry
\* pass from the first pass; `reported` is the count of the final failure
\* notice, 0 when there was none; `steady` holds while every response so far
\* was a body failing exactly the flaky identifiers among the documents sent;
\* `previous` is the set the pass under way was chunked from (empty in the
\* first pass); `accepted` are the documents that were sent in a request whose
\* response did not list them as failed.
NoBulk ==
  [pc |-> "idle", attempts |-> 0, retrying |-> FALSE, batches |-> <<>>, filePaths |-> <<>>,
   files |-> <<>>, documents |-> <<>>, remaining |-> <<>>, reported |-> 0, steady |-> TRUE,
   previous |-> {}, accepted |-> {}]

\* the callback rejected: an exception left batchIndexDocuments (`batches`
\* keeps the batches of the pass that was under way)
bulkCrashed(b) ==
  [b EXCEPT !.pc = "crashed", !.filePaths = <<>>, !.files = <<>>, !.documents = <<>>,
            !.remaining = <<>>]

\* await this.batchIndexDocuments(new Set(batch)) for the first of `batches`,
\* up to its first await
bulkCall(b, batches, remaining) ==
  LET filePaths == NewSet(Head(batches))
      files == resolveFiles(filePaths)
  IN  IF resolveThrows(filePaths) THEN bulkCrashed([b EXCEPT !.batches = batches])
      ELSE [b EXCEPT !.pc = IF files = <<>> THEN "requesting" ELSE "reading",
                     !.batches = batches, !.filePaths = filePaths, !.files = files,
                     !.documents = <<>>, !.remaining = remaining]

\* the test of the retry loop with currentRemaining and attempts: another
\* pass over chunkArray(Array.from(currentRemaining), batchSize), or the
\* final notices
bulkLoop(b, currentRemaining, attempts) ==
  IF retryAgain(currentRemaining, attempts)
  THEN bulkCall([b EXCEPT !.attempts = attempts, !.retrying = TRUE,
                           !.previous = Range(currentRemaining)],
                chunkArray(ArrayFrom(currentRemaining), BatchSize), <<>>)
  ELSE [b EXCEPT !.pc = "done", !.attempts = attempts, !.batches = <<>>, !.filePaths = <<>>,
                 !.files = <<>>, !.documents = <<>>, !.remaining = currentRemaining,
                 !.reported = Len(currentRemaining)]

\* ------------------------------------------------------------- Spec
NoEval ==
  [done |-> FALSE, threw |-> FALSE, value |-> FALSE, file |-> <<>>,
   again |-> FALSE, threw2 |-> FALSE, value2 |-> FALSE]

SpecSettings ==
  {[excludePaths |-> ps, excludeTags |-> <<PrivateTag>>] : ps \in {<<>>, <<ArchivePrefix>>}}

\* the persisted states a run of Spec starts from
SpecDisks == {NoData, Stored(SeqOf(SpecPaths))}

Init ==
  /\ vault \in [SpecPaths -> {NoFile} \cup {FileOf(m) : m \in SpecMetas}]
  /\ settings \in SpecSettings
  /\ phase = "constructed"
  /\ heap = [o \in ObjIds |-> <<>>]
  /\ toIndex = 1
  /\ data = <<>>
  /\ disk \in SpecDisks
  /\ ticks = <<>>
  /\ handled = NoResp
  /\ window = NoWindow
  /\ indexOps = <<>>
  /\ net = <<>>
  /\ excl = NoEval
  /\ bulk = NoBulk

\* the queue and its dispatcher: plugin load, the interval tick and its
\* continuations, the backend, modify events and the vault's own changes
Next ==
  \/ Onload
  \/ Tick
  \/ \E i \in 1..MaxInFlight : TickReads(i)
  \/ \E i \in 1..MaxInFlight : TickResume(i)
  \/ \E f \in Paths : Modify(f)
  \/ \E f \in Paths : DeleteFile(f)
  \/ \E f \in Paths : CreateFile(f)
  \/ \E f \in Paths : MetadataChange(f)

Spec == Init /\ [][Next]_vars

\* ------------------------------------------------------- SpecRename
\* rename events and the single-document requests they issue
NextRename ==
  \/ Onload
  \/ \E f \in Paths : Modify(f)
  \/ \E o, f \in Paths : Rename(o, f)
  \/ \E k \in 1..MaxRenames : IndexRead(k)
  \/ \E k \in 1..(2 * MaxRenames), ok \in BOOLEAN : RequestSettles(k, ok)
  \/ \E f \in Paths : DeleteFile(f)
  \/ \E f \in Paths : CreateFile(f)
  \/ \E f \in Paths : MetadataChange(f)

SpecRename == Init /\ [][NextRename]_vars

\* ------------------------------------------------------ SpecRestart
\* Obsidian constructs a new plugin instance after an unload, once the
\* callbacks of the old instance have finished.
Restart ==
  /\ phase = "unloaded"
  /\ ticks = <<>>
  /\ phase' = "constructed"
  /\ heap' = [o \in ObjIds |-> <<>>]
  /\ toIndex' = 1
  /\ data' = <<>>
  /\ handled' = NoResp
  /\ window' = NoWindow
  /\ UNCHANGED <<vault, settings, disk, ticks, indexOps, net, excl, bulk>>

\* the persisted states a first run of SpecRestart starts from
RestartDisks == SpecDisks \cup {NotArray}

InitRestart ==
  /\ vault \in [SpecPaths -> {NoFile} \cup {FileOf(m) : m \in SpecMetas}]
  /\ settings \in SpecSettings
  /\ phase = "constructed"
  /\ heap = [o \in ObjIds |-> <<>>]
  /\ toIndex = 1
  /\ data = <<>>
  /\ disk \in RestartDisks
  /\ ticks = <<>>
  /\ handled = NoResp
  /\ window = NoWindow
  /\ indexOps = <<>>
  /\ net = <<>>
  /\ excl = NoEval
  /\ bulk = NoBulk

\* load, queue, dispatch (one callback at a time), unload and load again, in
\* a vault that does not change
NextRestart ==
  \/ Onload
  \/ (ticks = <<>> /\ Tick)
  \/ \E i \in 1..MaxInFlight : TickReads(i)
  \/ \E i \in 1..MaxInFlight : TickResume(i)
  \/ \E f \in Paths : Modify(f)
  \/ Onunload
  \/ Restart

SpecRestart == InitRestart /\ [][NextRestart]_vars

\* --------------------------------------------------------- SpecBulk
\* the identifiers the backend's failure reports are drawn from: two of the
\* first batch and one of the second
BulkFlaky == {NotesPath(1), NotesPath(2), NotesPath(BulkDocs)}

\* the documents that are created, edited and deleted while the command runs
BulkVolatile == {NotesPath(3)}

\* the responses of the batch endpoint in SpecBulk: a transport error, or a
\* body whose failed_documents lists some of the flaky identifiers
BulkResponses ==
  {[ok |-> FALSE, failed |-> <<>>]} \cup {[ok |-> TRUE, failed |-> SeqOf(S)] : S \in SUBSET BulkFlaky}

\* the command is invoked: the files are enumerated and chunked, and the first
\* batchIndexDocuments call runs up to its first await
BulkStart ==
  /\ phase = "loaded"
  /\ bulk.pc \in {"idle", "done", "crashed"}
  /\ LET filesSet == traverseFolders(foldersToTraverse, <<>>)
         batches == chunkArray(ArrayFrom(filesSet), BatchSize)
     IN  bulk' = IF batches = <<>> THEN bulkLoop(NoBulk, <<>>, 0)
                 ELSE bulkCall(NoBulk, batches, <<>>)
  /\ UNCHANGED <<vault, settings, phase, heap, toIndex, data, disk, ticks, handled, window,
                 indexOps, net, excl>>

\* the awaited vault.read calls of the running batchIndexDocuments have settled
BulkReads ==
  /\ bulk.pc = "reading"
  /\ bulk' = IF readsSucceed(bulk.files)
             THEN [bulk EXCEPT !.pc = "requesting", !.files = <<>>,
                               !.documents = buildDocuments(bulk.files)]
             ELSE bulkCrashed(bulk)
  /\ UNCHANGED <<vault, settings, phase, heap, toIndex, data, disk, ticks, handled, window,
                 indexOps, net, excl>>

\* What a settled batch of the command leaves in this.toIndex: the command
\* adds batchRemaining to its local sets only.
toIndexAfterBatchRequeued(pending, batchRemaining) == addAll(pending, batchRemaining)
toIndexAfterBatch(pending, batchRemaining) == pending

\* the batch request settles with r: its result is added to the pass's set,
\* and the callback goes on to the next batch or to the end of the pass
BulkResume ==
  /\ bulk.pc = "requesting"
  /\ \E r \in BulkResponses :
       LET batchRemaining == IF returnsArgument(r) THEN bulk.filePaths ELSE remainingSet(r)
           remaining == addAll(bulk.remaining, batchRemaining)
           rest == Tail(bulk.batches)
           b == [bulk EXCEPT !.steady = @ /\ r.ok
                                        /\ Range(r.failed) = BulkFlaky \cap Range(bulk.documents),
                             !.accepted = IF r.ok
                                          THEN @ \cup (Range(bulk.documents) \ Range(r.failed))
                                          ELSE @]
       IN  /\ bulk' = IF rest # <<>> THEN bulkCall(b, rest, remaining)
                      ELSE bulkLoop(b, remaining, IF bulk.retrying THEN bulk.attempts + 1 ELSE 0)
           /\ heap' = [heap EXCEPT ![toIndex] = toIndexAfterBatch(@, batchRemaining)]
  /\ UNCHANGED <<vault, settings, phase, toIndex, data, disk, ticks, handled, window,
                 indexOps, net, excl>>

InitBulk ==
  /\ vault \in {[p \in BulkPaths |-> IF p \in BulkVolatile THEN v ELSE FileOf(Untagged)] :
                  v \in {NoFile} \cup {FileOf(m) : m \in SpecMetas}}
  /\ settings \in SpecSettings
  /\ phase = "constructed"
  /\ heap = [o \in ObjIds |-> <<>>]
  /\ toIndex = 1
  /\ data = <<>>
  /\ disk = NoData
  /\ ticks = <<>>
  /\ handled = NoResp
  /\ window = NoWindow
  /\ indexOps = <<>>
  /\ net = <<>>
  /\ excl = NoEval
  /\ bulk = NoBulk

NextBulk ==
  \/ Onload
  \/ BulkStart
  \/ BulkReads
  \/ BulkResume
  \/ \E f \in BulkVolatile : DeleteFile(f)
  \/ \E f \in BulkVolatile : CreateFile(f)
  \/ \E f \in BulkVolatile : MetadataChange(f)
  \/ \E f \in BulkVolatile : Modify(f)

SpecBulk == InitBulk /\ [][NextBulk]_vars

\* ------------------------------------------------------- SpecFilter
\* isExcluded as a function of its inputs: one document, its metadata and the
\* exclusion settings are drawn at Init, and Evaluate calls isExcluded on it.
TagLists ==
  {<<>>, << <<"private">> >>, <<PrivateTag>>, << <<"todo">> >>, << <<"todo">>, <<"private">> >>}

FilterMetas ==
  {NoCache} \cup
  {[cache |-> TRUE, fm |-> "absent", fmTags |-> <<>>, inline |-> FALSE, inlineTags |-> <<>>],
   [cache |-> TRUE, fm |-> "notags", fmTags |-> <<>>, inline |-> FALSE, inlineTags |-> <<>>]}
  \cup {[cache |-> TRUE, fm |-> "tags", fmTags |-> ts, inline |-> FALSE, inlineTags |-> <<>>] :
          ts \in TagLists}
  \cup {[cache |-> TRUE, fm |-> f, fmTags |-> <<>>, inline |-> TRUE, inlineTags |-> ts] :
          f \in {"absent", "notags"}, ts \in TagLists}
  \cup {[cache |-> TRUE, fm |-> "tags", fmTags |-> fs, inline |-> TRUE, inlineTags |-> ts] :
          fs \in TagLists, ts \in TagLists}

FilterPaths == {<<"Archive", "/", "x">>, <<"Notes", "/", "y">>, <<"Foo", "Bar", "/", "x">>}

FilterSettings ==
  [excludePaths : {<<>>, <<ArchivePrefix>>, << <<"Foo">> >>, << <<"Foo">>, ArchivePrefix>>},
   excludeTags : {<<>>, <<PrivateTag>>, << <<"private">> >>, << <<"#", "todo">>, PrivateTag>>}]

InitFilter ==
  /\ \E p \in FilterPaths : vault \in [{p} -> {FileOf(m) : m \in FilterMetas}]
  /\ settings \in FilterSettings
  /\ phase = "constructed"
  /\ heap = [o \in ObjIds |-> <<>>]
  /\ toIndex = 1
  /\ data = <<>>
  /\ disk = NoData
  /\ ticks = <<>>
  /\ handled = NoResp
  /\ window = NoWindow
  /\ indexOps = <<>>
  /\ net = <<>>
  /\ excl = NoEval
  /\ bulk = NoBulk

\* a call isExcluded(file): it throws, or it returns a boolean
Evaluate(file) ==
  /\ ~excl.done
  /\ excl' = [excl EXCEPT !.done = TRUE, !.threw = isExcludedThrows(file),
                          !.value = ~isExcludedThrows(file) /\ isExcluded(file),
                          !.file = file]
  /\ UNCHANGED <<vault, settings, phase, heap, toIndex, data, disk, ticks, handled, window,
                 indexOps, net, bulk>>

NextFilter == \E f \in Paths : Evaluate(f)

SpecFilter == InitFilter /\ [][NextFilter]_vars

\* -------------------------------------------------- SpecFilterTwice
\* a second call isExcluded(file) on the file of the first call
EvaluateAgain(file) ==
  /\ excl.done /\ ~excl.again
  /\ file = excl.file
  /\ excl' = [excl EXCEPT !.again = TRUE, !.threw2 = isExcludedThrows(file),
                          !.value2 = ~isExcludedThrows(file) /\ isExcluded(file)]
  /\ UNCHANGED <<vault, settings, phase, heap, toIndex, data, disk, ticks, handled, window,
                 indexOps, net, bulk>>

\* two calls of isExcluded on one document, while the plugin loads and modify
\* events change the queue
NextFilterTwice ==
  \/ \E f \in Paths : Evaluate(f)
  \/ \E f \in Paths : EvaluateAgain(f)
  \/ Onload
  \/ \E f \in Paths : Modify(f)

SpecFilterTwice == InitFilter /\ [][NextFilterTwice]_vars

\* -------------------------------------------------------- SpecDrain
\* The interval tick and the command on the vault of SpecBulk, with a stored
\* queue of up to BulkDocs identifiers; the batch requests of the ticks stay
\* unanswered.
DrainDisks == {NoData} \cup {Stored(SubSeq(BulkListing, 1, n)) : n \in {1, BatchSize, BulkDocs}}

InitDrain ==
  /\ vault \in {[p \in BulkPaths |-> IF p \in BulkVolatile THEN v ELSE FileOf(Untagged)] :
                  v \in {NoFile} \cup {FileOf(m) : m \in SpecMetas}}
  /\ settings \in SpecSettings
  /\ phase = "constructed"
  /\ heap = [o \in ObjIds |-> <<>>]
  /\ toIndex = 1
  /\ data = <<>>
  /\ disk \in DrainDisks
  /\ ticks = <<>>
  /\ handled = NoResp
  /\ window = NoWindow
  /\ indexOps = <<>>
  /\ net = <<>>
  /\ excl = NoEval
  /\ bulk = NoBulk

NextDrain ==
  \/ Onload
  \/ Tick
  \/ \E i \in 1..MaxInFlight : TickReads(i)
  \/ BulkStart
  \/ BulkReads
  \/ BulkResume
  \/ \E f \in BulkVolatile : Modify(f)

SpecDrain == InitDrain /\ [][NextDrain]_vars

\* --------------------------------------------------------- SpecLive
\* The queue and the interval tick on a vault that does not change: every
\* document exists and has no tags.  The timer keeps firing, and the awaited
\* reads and requests of a callback settle.
InitLive ==
  /\ vault = [p \in SpecPaths |-> FileOf(Untagged)]
  /\ settings \in SpecSettings
  /\ phase = "constructed"
  /\ heap = [o \in ObjIds |-> <<>>]
  /\ toIndex = 1
  /\ data = <<>>
  /\ disk \in SpecDisks
  /\ ticks = <<>>
  /\ handled = NoResp
  /\ window = NoWindow
  /\ indexOps = <<>>
  /\ net = <<>>
  /\ excl = NoEval
  /\ bulk = NoBulk

NextLive ==
  \/ Onload
  \/ Tick
  \/ \E i \in 1..MaxInFlight : TickReads(i)
  \/ \E i \in 1..MaxInFlight : TickResume(i)
  \/ \E f \in Paths : Modify(f)

\* no callback waits for ever: the reads and the request of each one settle
SpecLive ==
  /\ InitLive /\ [][NextLive]_vars
  /\ WF_vars(Tick)
  /\ \A i \in 1..MaxInFlight : WF_vars(TickReads(i)) /\ WF_vars(TickResume(i))

\* --------------------------------------------------------- SpecSend
\* The three ways a document reaches the backend, in a vault that changes:
\* the interval tick (one callback at a time), the command up to the request
\* of its first batch, and the indexDocument call of a rename.
NextSend ==
  \/ Onload
  \/ (ticks = <<>> /\ Tick)
  \/ \E i \in 1..MaxInFlight : TickReads(i)
  \/ \E i \in 1..MaxInFlight : TickResume(i)
  \/ BulkStart
  \/ BulkReads
  \/ \E o, f \in Paths : Rename(o, f)
  \/ \E k \in 1..MaxRenames : IndexRead(k)
  \/ \E f \in Paths : Modify(f)
  \/ \E f \in Paths : DeleteFile(f)
  \/ \E f \in Paths : MetadataChange(f)

SpecSend == Init /\ [][NextSend]_vars

\* ----------------------------------------------------- SpecSaveFail
\* The queue and the interval tick when the write of data.json can fail, on
\* the vault of SpecLive.
NextSaveFail ==
  \/ Onload
  \/ Tick
  \/ \E i \in 1..MaxInFlight : TickReads(i)
  \/ \E i \in 1..MaxInFlight : TickResume(i)
  \/ \E i \in 1..MaxInFlight : TickResumeSaveFails(i)
  \/ \E f \in Paths : Modify(f)

SpecSaveFail == InitLive /\ [][NextSaveFail]_vars

\* --------------------------------------------------------- SpecTags
\* The "Exclude Tags" text field of the settings tab.  A text is a sequence of
\* symbols, "," and " " among them.
RECURSIVE splitComma(_)
splitComma(value) ==
  IF \A k \in 1..Len(value) : value[k] # ","
  THEN <<value>>
  ELSE LET k == CHOOSE i \in 1..Len(value) :
                  value[i] = "," /\ \A j \in 1..(i - 1) : value[j] # ","
       IN  <<SubSeq(value, 1, k - 1)>> \o splitComma(SubSeq(value, k + 1, Len(value)))

RECURSIVE trimStart(_)
trimStart(str) == IF str # <<>> /\ Head(str) = " " THEN trimStart(Tail(str)) ELSE str

RECURSIVE trimEnd(_)
trimEnd(str) ==
  IF str # <<>> /\ str[Len(str)] = " " THEN trimEnd(SubSeq(str, 1, Len(str) - 1)) ELSE str

trim(str) == trimEnd(trimStart(str))

\* value.split(',').map(s => s.trim()).filter(s => s.length > 0)
parseList(value) ==
  LET parts == splitComma(value)
      trimmed == [k \in 1..Len(parts) |-> trim(parts[k])]
  IN  SeqFilter(trimmed, Range(trimmed) \ {<<>>})

\* the texts the user enters
EnteredTexts ==
  {<<>>, <<"private">>, <<"#", "private">>, <<"#", "todo", ",", " ", "private">>,
   <<" ", "#", "private", " ", ",">>}

\* onChange of the "Exclude Tags" field: the parsed list is stored, and
\* saveSettings writes the plugin data
ExcludeTagsOnChange(value) ==
  /\ phase = "loaded"
  /\ settings' = [settings EXCEPT !.excludeTags = parseList(value)]
  /\ data' = ArrayFrom(Pending)
  /\ disk' = savePluginData(Pending)
  /\ handled' = NoResp
  /\ UNCHANGED <<vault, phase, heap, toIndex, ticks, window, indexOps, net, excl, bulk>>

\* DEFAULT_SETTINGS has excludeTags: []
InitTags ==
  /\ \E p \in FilterPaths : vault \in [{p} -> {FileOf(m) : m \in FilterMetas}]
  /\ settings \in {[excludePaths |-> ps, excludeTags |-> <<>>] : ps \in {<<>>, <<ArchivePrefix>>}}
  /\ phase = "constructed"
  /\ heap = [o \in ObjIds |-> <<>>]
  /\ toIndex = 1
  /\ data = <<>>
  /\ disk = NoData
  /\ ticks = <<>>
  /\ handled = NoResp
  /\ window = NoWindow
  /\ indexOps = <<>>
  /\ net = <<>>
  /\ excl = NoEval
  /\ bulk = NoBulk

NextTags ==
  \/ Onload
  \/ \E value \in EnteredTexts : ExcludeTagsOnChange(value)
  \/ \E f \in Paths : Evaluate(f)
  \/ \E f \in Paths : Modify(f)

SpecTags == InitTags /\ [][NextTags]_vars

\* ------------------------------------------------------------ claims
\* The exclusion rule as the specification states it: the path starts with a
\* configured prefix, or the frontmatter and inline tags (absent ones counting
\* as none), each with a leading '#', meet the configured excluded tags.
DocumentTags(file) ==
  LET c == vault[file].meta
  IN  {normalizeTag(c.fmTags[i]) : i \in {j \in 1..Len(c.fmTags) : c.cache /\ c.fm = "tags"}}
        \cup
      {normalizeTag(c.inlineTags[i]) : i \in {j \in 1..Len(c.inlineTags) : c.cache /\ c.inline}}

ShouldExclude(file) ==
  \/ \E i \in 1..Len(settings.excludePaths) : startsWith(file, settings.excludePaths[i])
  \/ DocumentTags(file) \cap Range(settings.excludeTags) # {}

\* C9: isExcluded returns true exactly when the path starts with a configured
\* excluded prefix or the '#'-normalised frontmatter and inline tags meet the
\* configured excluded tags.
C9_ExcludedExactlyWhen ==
  excl.done => ((~excl.threw /\ excl.value) <=> ShouldExclude(excl.file))

\* C10: the exclusion filter never raises an error, whatever the shape of the
\* tag metadata (no cache, no frontmatter, frontmatter without tags, no inline
\* tags): it returns a boolean.
C10_NeverThrows == excl.done => ~excl.threw

\* the documents a running callback sends, or is about to send
Batch(t) == IF t.pc = "reading" THEN buildDocuments(t.files) ELSE t.documents

\* C1: an identifier a modify event adds while a dispatch cycle is suspended is
\* not lost: when the cycle completes, the pending set is the cycle's remaining
\* identifiers (the failure report, or the whole working set after a transport
\* error) together with every identifier added while it ran.  Stated for the
\* cycles that were the newest to start.
C1_AddedDuringDispatchKept ==
  (handled.got /\ handled.newest) =>
    PendingSet = (IF handled.ok THEN Range(handled.failed) ELSE handled.work) \cup handled.added

\* C2: a cycle that sent the batch b and got a failure report r within b leaves
\* every identifier of r pending and no identifier of b \ r pending.
C2_FailedRequeuedRestDropped ==
  (handled.got /\ handled.ok /\ Range(handled.failed) \subseteq Range(handled.documents)) =>
    /\ Range(handled.failed) \subseteq PendingSet
    /\ PendingSet \cap (Range(handled.documents) \ Range(handled.failed)) = {}

\* a cycle sent two documents and the backend failed one of them
C2_Witness ==
  /\ handled.got /\ handled.ok
  /\ Len(handled.documents) = 2
  /\ Len(handled.failed) = 1
  /\ Range(handled.failed) \subseteq Range(handled.documents)
  /\ PendingSet = Range(handled.failed)

\* C3: after a transport error every identifier that was pending when the cycle
\* started is pending when the cycle completes.
C3_TransportErrorKeepsAll == (handled.got /\ ~handled.ok) => handled.work \subseteq PendingSet

\* a cycle that had sent a document completed with a transport error
C3_Witness ==
  /\ handled.got /\ ~handled.ok
  /\ handled.documents # <<>>
  /\ Range(handled.documents) \subseteq PendingSet

\* While disk = NoData nothing was loaded and no cycle has completed (every
\* completed cycle saves), so each identifier of a working set was put there
\* by modify events, each of which runs both handlers: it was added twice.
AddedTwiceByModify(t) == IF disk = NoData THEN t.work ELSE {}

C5_NoIdentifierInTwoRequests ==
  \A i, j \in 1..Len(ticks) :
    (i < j /\ ticks[i].pc = "requesting" /\ ticks[j].pc = "requesting") =>
      Range(ticks[i].documents) \cap Range(ticks[j].documents) = {}

\* C8: a rename oldId -> newId issues the delete request for oldId and starts
\* the single-document indexing of newId exactly when newId is not excluded;
\* the indexing it started issues the index request for newId, after the
\* delete request for oldId.
C8_RenameDeletesThenIndexes ==
  [][/\ (Len(net') = Len(net) + 1 /\ net'[Len(net')].op = "delete") =>
          \A f \in Paths :
            (vault'[f].exists /\ ~vault[f].exists) =>
              /\ ~vault'[net'[Len(net')].name].exists
              /\ (f \in Range(indexOps')) <=> ~ShouldExclude(f)'
     /\ Len(indexOps') < Len(indexOps) =>
          \E k \in 1..Len(indexOps) :
            /\ indexOps' = RemoveAt(indexOps, k)
            /\ net' = Append(net, IndexRequest(indexOps[k]))
            /\ \E j \in 1..Len(net) : net[j].op = "delete"]_vars

\* the retry passes the command has begun
RetryPasses(b) == b.attempts + IF b.retrying /\ b.pc # "done" THEN 1 ELSE 0

\* C6: with a backend that fails the same 3 identifiers on every call, the
\* command performs exactly 5 retry passes after the first pass, returns and
\* reports a final failure count of 3.
C6_FiveRetriesThreeReported ==
  (bulk.pc \in {"done", "crashed"} /\ bulk.steady) =>
    (bulk.pc = "done" /\ bulk.attempts = MaxAttempts /\ bulk.reported = Cardinality(BulkFlaky))

\* A variant of the running command: the retry passes it may still begin,
\* then the batches of the pass still to send, then the awaits of the call
\* under way.  A pass has at most one batch per enumerated identifier.
Awaiting(b) == b.pc \in {"reading", "requesting"}

Measure(b) ==
  IF ~Awaiting(b) THEN 0
  ELSE 1 + (MaxAttempts - RetryPasses(b)) * (2 * Cardinality(Paths) + 2)
         + 2 * Len(b.batches) + IF b.pc = "reading" THEN 1 ELSE 0

\* C7: whatever the backend answers, the command begins at most 5 retry
\* passes, each of them over a non-empty remaining set, and it terminates:
\* every step of the running command lowers a natural-number variant.
C7_AtMostFiveRetriesThenEnds ==
  [][/\ RetryPasses(bulk') <= MaxAttempts
     /\ (Awaiting(bulk) /\ RetryPasses(bulk') > RetryPasses(bulk)) =>
          (bulk'.batches # <<>> /\ Head(bulk'.batches) # <<>>)
     /\ (Awaiting(bulk) /\ bulk' # bulk) => Measure(bulk') < Measure(bulk)]_vars

\* the command returned after its fifth retry pass with identifiers left
C7_Witness ==
  /\ bulk.pc = "done"
  /\ bulk.attempts = MaxAttempts
  /\ bulk.reported > 0

\* the identifiers of a well-formed persisted state
Persisted == IF disk.present /\ disk.isArray THEN Range(disk.toIndex) ELSE {}

\* a step that loads the plugin
Loads == phase = "constructed" /\ phase' # "constructed"

\* C11: saving the pending set and loading it again, nothing else having
\* changed, gives the saved set restricted to the identifiers whose documents
\* exist.  The saved sets are those that hold no excluded identifier: the
\* exclusion rules are the ones under which the identifiers were queued.
C11_RoundTripKeepsExisting ==
  [][(Loads /\ disk.present /\ disk.isArray /\ \A d \in Persisted : ~ShouldExclude(d)) =>
        PendingSet' = {d \in Persisted : vault[d].exists}]_vars

\* C12: loading never fails; it gives the empty set for an absent or
\* malformed persisted state, and otherwise exactly the persisted identifiers
\* that resolve to an existing document and match no exclusion rule.
C12_LoadNeverFailsNorKeepsStale ==
  [][Loads =>
        /\ phase' # "failed"
        /\ PendingSet' = {d \in Persisted : vault[d].exists /\ ~ShouldExclude(d)}]_vars

\* has the backend accepted d in the response of the callback just completed?
Accepted(d) ==
  handled.ok /\ d \in Range(handled.documents) /\ d \notin Range(handled.failed)

\* C13: after shutdown the persisted state holds the pending set, and when a
\* callback that was in flight completes after shutdown, every identifier it
\* started with or that was added while it ran, and that the backend has not
\* accepted, is in the persisted state (for identifiers of existing documents
\* that match no exclusion rule).
C13_UnacceptedPersistedAtShutdown ==
  phase = "unloaded" =>
    /\ ticks = <<>> => PendingSet \subseteq Persisted
    /\ handled.got =>
         \A d \in handled.work \cup handled.added :
           (vault[d].exists /\ ~ShouldExclude(d) /\ ~Accepted(d)) => d \in Persisted

\* C14: a create event for a document adds its identifier to the pending set
\* whenever a modify event for that document would.
C14_CreateQueuesLikeModify ==
  [][\A f \in Paths :
       (phase = "loaded" /\ ~vault[f].exists /\ vault'[f].exists /\ modifyAdds(f)') =>
         f \in PendingSet']_vars

\* C15: a read that fails while a callback assembles its batch neither ends
\* the callback nor keeps the other documents back: a callback that awaits
\* its reads is still there after any step, and when it goes on to its
\* request it sends the files that could be read.
C15_ReadFailureSkipsOneDocument ==
  [][\A i \in 1..Len(ticks) :
       ticks[i].pc = "reading" =>
         \E j \in 1..Len(ticks') :
           /\ ticks'[j].filePaths = ticks[i].filePaths
           /\ ticks'[j].work = ticks[i].work
           /\ ticks'[j].pc = "requesting" =>
                Range(ticks'[j].documents) = {f \in Range(ticks[i].files) : vault[f].exists}]_vars

\* C16: no step of the bulk command adds an identifier to the pending set or
\* removes one from it, the identifiers left after the last retry included.
C16_BulkLeavesPendingSet ==
  [][bulk' # bulk => (toIndex' = toIndex /\ heap' = heap)]_vars

\* the command returned with identifiers left while another identifier was
\* pending, and none of those left is pending
C16_Witness ==
  /\ bulk.pc = "done"
  /\ bulk.reported > 0
  /\ PendingSet # {}
  /\ PendingSet \cap Range(bulk.remaining) = {}

C18_RequestsWithinBatchSize ==
  /\ \A i \in 1..Len(ticks) :
       ticks[i].pc = "requesting" => Len(ticks[i].documents) <= BatchSize
  /\ bulk.pc = "requesting" => Len(bulk.documents) <= BatchSize

\* C20: when the newest callback ends and the backend named only documents it
\* was sent, an identifier the callback started with and did not send
\* (excluded or unresolved when the callback ran) is not in the pending set,
\* unless a modify handler added it while the callback ran.
C20_DroppedIdentifierLeaves ==
  (handled.got /\ handled.newest /\ Range(handled.failed) \subseteq Range(handled.documents)) =>
    \A d \in handled.work \ (Range(handled.documents) \cup handled.added) : d \notin PendingSet

\* a batch request of an interval tick carries d
Sent(d) == \E i \in 1..Len(ticks) : ticks[i].pc = "requesting" /\ d \in Range(ticks[i].documents)

\* C19: a document that exists, is not excluded and is in the pending set
\* (where every modify event of such a document puts it, also while a callback
\* awaits its response) is eventually carried by a batch request of a tick.
C19_ModifiedEventuallySent ==
  \A d \in SpecPaths :
    (phase = "loaded" /\ d \in PendingSet /\ vault[d].exists /\ ~ShouldExclude(d)) ~> Sent(d)

\* the documents that exist and are not excluded
Resolved == {f \in Paths : vault[f].exists /\ ~ShouldExclude(f)}

\* C21: a batchIndexDocuments call (of a tick or of the command) and an
\* indexDocument call keep, when they resolve their identifiers, only
\* documents that exist and are not excluded then, and the request each one
\* issues carries only documents it kept.
C21_OnlyResolvedDocumentsSent ==
  [][/\ Len(ticks') > Len(ticks) => Range(Batch(ticks'[Len(ticks')])) \subseteq Resolved'
     /\ \A i \in 1..Len(ticks) :
          (Len(ticks') = Len(ticks) /\ ticks[i].pc = "reading" /\ ticks'[i].pc = "requesting") =>
            Range(ticks'[i].documents) \subseteq Range(ticks[i].files)
     /\ (bulk.pc # "reading" /\ bulk'.pc = "reading") => Range(bulk'.files) \subseteq Resolved'
     /\ (bulk.pc # "requesting" /\ bulk'.pc = "requesting") =>
          Range(bulk'.documents) \subseteq
            IF bulk.pc = "reading" THEN Range(bulk.files) ELSE Resolved'
     /\ Len(indexOps') > Len(indexOps) => indexOps'[Len(indexOps')] \in Resolved'
     /\ (Len(net') > Len(net) /\ net'[Len(net')].op = "index") =>
          net'[Len(net')].name \in Range(indexOps)]_vars

\* a tick's request carries a document that became excluded after the tick
\* resolved it, while the command and a rename have each issued a request
C21_Witness ==
  /\ \E i \in 1..Len(ticks) :
       ticks[i].pc = "requesting" /\ Range(ticks[i].documents) \ Resolved # {}
  /\ \E k \in 1..Len(net) : net[k].op = "index"
  /\ bulk.pc = "requesting" /\ bulk.documents # <<>>

\* C22: while the plugin is loaded, the pending set is empty and no callback
\* is running, no step (the interval tick among them) starts a callback,
\* sends a request or writes the persisted state, and the pending set stays
\* empty unless a modify handler adds a document to it.
C22_EmptyTickDoesNothing ==
  [][(phase = "loaded" /\ PendingSet = {} /\ ticks = <<>>) =>
       /\ ticks' = <<>>
       /\ disk' = disk /\ data' = data
       /\ toIndex' = toIndex
       /\ PendingSet' \subseteq Resolved]_vars

\* a callback has emptied and saved the pending set, and the timer fires again
C22_Witness ==
  /\ phase = "loaded" /\ PendingSet = {} /\ ticks = <<>>
  /\ disk = Stored(<<>>)
  /\ ~handled.got
  /\ ENABLED Tick

\* C23: when the write at the end of a callback fails, the pending set is the
\* set the callback computed (the failure list of the response, or on a
\* transport error the set the callback was called with), the file keeps its
\* contents, and the next timer tick starts a callback from that pending set.
C23_FailedWriteKeepsQueue ==
  [][/\ (handled'.got /\ ~handled'.saved) =>
          \E i \in 1..Len(ticks) :
            /\ ticks' = RemoveAt(ticks, i)
            /\ Pending' = IF handled'.ok THEN NewSet(handled'.failed)
                                        ELSE heap[ticks[i].filePaths]
            /\ disk' = disk
            /\ phase' = "loaded"
     /\ (handled.got /\ ~handled.saved /\ PendingSet # {} /\ Len(ticks) < MaxInFlight) =>
          ENABLED (Tick /\ Len(ticks') = Len(ticks) + 1
                        /\ ticks'[Len(ticks')].work = PendingSet)]_vars

\* a write has just failed: the pending set holds an identifier the file does
\* not hold, and the timer can start the next callback
C23_Witness ==
  /\ handled.got /\ ~handled.saved
  /\ disk.present
  /\ \E d \in PendingSet : d \notin Persisted
  /\ Len(ticks) < MaxInFlight

\* C24: a request of a retry pass of the command carries only identifiers of
\* the set that remained from the previous pass, and none that an earlier
\* request of the command had accepted.
C24_RetrySendsOnlyRemaining ==
  (bulk.retrying /\ bulk.pc = "requesting") =>
    /\ Range(bulk.documents) \subseteq bulk.previous
    /\ Range(bulk.documents) \cap bulk.accepted = {}

\* the batches of a pass that hold d
BatchesWith(batches, d) == {k \in 1..Len(batches) : d \in Range(batches[k])}

\* C25: when the command starts, every document of the vault that is not
\* excluded, in the root folder or in a nested one, is in exactly one batch of
\* the first pass.
C25_FirstPassCoversVault ==
  [][(~Awaiting(bulk) /\ bulk' # bulk) =>
       \A d \in Resolved' : Cardinality(BatchesWith(bulk'.batches, d)) = 1]_vars

\* C26: every excluded tag of the settings starts with '#', whatever text was
\* entered, and isExcluded returns true for a document one of whose tags,
\* written with or without '#', is an excluded tag as entered.
C26_ExcludedTagsCarryMarker ==
  /\ \A i \in 1..Len(settings.excludeTags) : startsWith(settings.excludeTags[i], <<"#">>)
  /\ (excl.done /\ ~excl.threw) =>
       ((\E i \in 1..Len(settings.excludeTags) :
           normalizeTag(settings.excludeTags[i]) \in DocumentTags(excl.file)) => excl.value)

\* C27: a step of the rename handling (the handler itself, the read of its
\* indexDocument call, the settling of a delete or index request, failed or
\* not) leaves this.toIndex and the contents of its Set as they were.
C27_RenameLeavesPendingSet ==
  [][(net' # net \/ indexOps' # indexOps) => (toIndex' = toIndex /\ Pending' = Pending)]_vars

\* a queued document was renamed: its old identifier is still queued, and the
\* index request for the new one failed without queuing it
C27_Witness ==
  /\ \E k \in 1..Len(net) : net[k].op = "delete" /\ net[k].name \in PendingSet
  /\ \E k \in 1..Len(net) :
       net[k].op = "index" /\ net[k].state = "failed" /\ net[k].name \notin PendingSet

\* C28: when the newest callback ends, whatever the backend answered, the
\* pending set holds only identifiers the callback started with or that a
\* modify handler added while it ran.
C28_NothingIntroducedByResponse ==
  (handled.got /\ handled.newest) => PendingSet \subseteq handled.work \cup handled.added

====
